---------------------------- MODULE Spec2Model ----------------------------
(***************************************************************************)
(* Model of the IELTS listening audio generator:                           *)
(*   - utils/audioUtils.ts    : base64 <-> bytes, the WAV container        *)
(*   - services/geminiService : parseGenders and the voice resolution of   *)
(*                              generateSpeech                             *)
(*   - App.tsx                : the form state and handleGenerateAudio     *)
(* A JavaScript string is a sequence of one-character strings; a           *)
(* Uint8Array is a sequence of numbers 0..255 (index i of the code is      *)
(* index i+1 here); a base64 string is a sequence of alphabet indices      *)
(* 0..63, with 64 standing for the padding character '='.                  *)
(***************************************************************************)
EXTENDS Integers, Sequences, FiniteSets, TLC

VARIABLES
    \* createWavFileDataUrl, called on its own
    base64Pcm, trailingSilenceSeconds, dataUrl, wavPc,
    \* the voice resolution of generateSpeech, called on its own
    gsScript, gsOptions, gsResult, gsPc,
    \* App: the form's state and the latest generation attempt
    script, numVoices, voiceGenders, accent, trailingSilence,
    isLoading, audioDataUrl, error, pc, attempt, apiKey

wavVars == <<base64Pcm, trailingSilenceSeconds, dataUrl, wavPc>>
gsVars == <<gsScript, gsOptions, gsResult, gsPc>>
appVars == <<script, numVoices, voiceGenders, accent, trailingSilence,
             isLoading, audioDataUrl, error, pc, attempt, apiKey>>
vars == <<wavVars, gsVars, appVars>>

\* a nullable value or a parsed number is a sequence: empty for null and for
\* NaN, one element otherwise
NULL == <<>>
NaN == <<>>
Some(v) == <<v>>

(***************************************************************************)
(* Bounds of the model.                                                    *)
(***************************************************************************)
\* longest decoded PCM buffer handed to createWavFileDataUrl
MaxLen == 3
\* largest small silence duration, in units of 1/DurDen seconds
MaxDur == 13
\* longest script of the exhaustive script enumeration, in characters
MaxScriptLen == 5
\* most words in a gender hint of the exhaustive hint enumeration
MaxTokens == 2

\* a duration d seconds is the integer d * DurDen (0.00001 s is 1 unit)
DurDen == 10 * 10000

(***************************************************************************)
(* JavaScript string helpers.                                              *)
(***************************************************************************)
\* what the regular expression class \s matches
WhiteSpace == {" ", "\n", "\t"}
\* [a-zA-Z] and [0-9], as far as the model's alphabets go
Letters == {"A", "B", "M", "N", "a", "b", "e", "h", "i", "l", "m", "n", "o", "u",
            "w", "x", "y"}
Digits == {"0", "1", "2", "3", "4", "5", "6", "7", "8", "9"}

DigitValue(c) ==
    CASE c = "0" -> 0 [] c = "1" -> 1 [] c = "2" -> 2 [] c = "3" -> 3
      [] c = "4" -> 4 [] c = "5" -> 5 [] c = "6" -> 6 [] c = "7" -> 7
      [] c = "8" -> 8 [] c = "9" -> 9

\* s.slice(from) with from counted from 1
Drop(s, k) == SubSeq(s, k + 1, Len(s))

\* String.prototype.trim
RECURSIVE TrimStart(_)
TrimStart(s) ==
    IF s # <<>> /\ Head(s) \in WhiteSpace THEN TrimStart(Tail(s)) ELSE s

RECURSIVE TrimEnd(_)
TrimEnd(s) ==
    IF s # <<>> /\ s[Len(s)] \in WhiteSpace
    THEN TrimEnd(SubSeq(s, 1, Len(s) - 1)) ELSE s

Trim(s) == TrimEnd(TrimStart(s))

\* String.prototype.startsWith
StartsWith(s, p) == Len(s) >= Len(p) /\ SubSeq(s, 1, Len(p)) = p

\* String.prototype.includes
Includes(s, p) ==
    \E i \in 1..(Len(s) - Len(p) + 1) : SubSeq(s, i, i + Len(p) - 1) = p

\* String.prototype.toLowerCase, on the model's alphabet
LowerChar(c) ==
    CASE c = "A" -> "a" [] c = "B" -> "b" [] c = "M" -> "m" [] c = "N" -> "n"
      [] OTHER -> c

ToLowerCase(s) == [i \in 1..Len(s) |-> LowerChar(s[i])]

\* String.prototype.normalize("NFD"): U+1EEF (u with horn and tilde)
\* decomposes to u, U+031B, U+0303; the other characters are unchanged
DecomposeChar(c) ==
    IF c = "U+1EEF" THEN <<"u", "U+031B", "U+0303">> ELSE <<c>>

RECURSIVE NormalizeNFD(_)
NormalizeNFD(s) ==
    IF s = <<>> THEN <<>> ELSE DecomposeChar(Head(s)) \o NormalizeNFD(Tail(s))

\* .replace(/[\u0300-\u036f]/g, "")
CombiningMarks == {"U+031B", "U+0303"}

StripCombining(s) == SelectSeq(s, LAMBDA c : c \notin CombiningMarks)

\* s.toLowerCase().normalize("NFD").replace(/[\u0300-\u036f]/g, "")
Normalize(s) == StripCombining(NormalizeNFD(ToLowerCase(s)))

\* parseInt(s, 10): leading white space, an optional sign, then the longest
\* run of decimal digits; NaN when there is no digit
RECURSIVE DigitRun(_)
DigitRun(s) ==
    IF s # <<>> /\ Head(s) \in Digits THEN <<Head(s)>> \o DigitRun(Tail(s))
    ELSE <<>>

RECURSIVE DecimalValue(_)
DecimalValue(ds) ==
    IF ds = <<>> THEN 0
    ELSE 10 * DecimalValue(SubSeq(ds, 1, Len(ds) - 1)) + DigitValue(ds[Len(ds)])

ParseInt(s) ==
    LET t == TrimStart(s)
        neg == t # <<>> /\ Head(t) = "-"
        body == IF t # <<>> /\ Head(t) \in {"-", "+"} THEN Tail(t) ELSE t
        ds == DigitRun(body)
    IN  IF ds = <<>> THEN NaN
        ELSE IF neg THEN Some(0 - DecimalValue(ds)) ELSE Some(DecimalValue(ds))

\* parseFloat(s) of a decimal numeral, as a multiple of 1/DurDen: an
\* optional sign, digits, an optional point and digits, of which the first
\* five count; NaN when there is no digit
ParseFloat(s) ==
    LET t == TrimStart(s)
        neg == t # <<>> /\ Head(t) = "-"
        body == IF t # <<>> /\ Head(t) \in {"-", "+"} THEN Tail(t) ELSE t
        int == DigitRun(body)
        rest == Drop(body, Len(int))
        frac == IF rest # <<>> /\ Head(rest) = "." THEN DigitRun(Tail(rest)) ELSE <<>>
        frac5 == [i \in 1..5 |-> IF i <= Len(frac) THEN frac[i] ELSE "0"]
        units == DecimalValue(int) * DurDen + DecimalValue(frac5)
    IN  IF int = <<>> /\ frac = <<>> THEN NaN
        ELSE IF neg THEN Some(0 - units) ELSE Some(units)

(***************************************************************************)
(* utils/audioUtils.ts                                                     *)
(***************************************************************************)
Pad == 64

\* atob first drops one or two trailing '=' of a string whose length is a
\* multiple of 4
Unpadded(base64) ==
    LET n == Len(base64)
    IN  IF n % 4 = 0 /\ n >= 2 /\ base64[n] = Pad
        THEN (IF base64[n - 1] = Pad THEN SubSeq(base64, 1, n - 2)
              ELSE SubSeq(base64, 1, n - 1))
        ELSE base64

\* atob throws InvalidCharacterError on a length of 1 modulo 4 and on any
\* character outside the alphabet
AtobThrows(base64) ==
    LET data == Unpadded(base64)
    IN  Len(data) % 4 = 1 \/ \E i \in 1..Len(data) : data[i] = Pad

\* atob followed by charCodeAt: the bytes a base64 string stands for
decode(base64) ==
    LET data == Unpadded(base64)
        m == Len(data)
        C(i) == IF i <= m THEN data[i] ELSE 0
    IN  [i \in 1..((3 * m) \div 4) |->
            LET g == (i - 1) \div 3
                k == (i - 1) % 3
                c0 == C(4 * g + 1)
                c1 == C(4 * g + 2)
                c2 == C(4 * g + 3)
                c3 == C(4 * g + 4)
            IN  CASE k = 0 -> c0 * 4 + c1 \div 16
                  [] k = 1 -> (c1 % 16) * 16 + c2 \div 4
                  [] k = 2 -> (c2 % 4) * 64 + c3]

\* String.fromCharCode over the bytes followed by btoa
encode(bytes) ==
    LET n == Len(bytes)
        B(i) == IF i <= n THEN bytes[i] ELSE 0
    IN  [j \in 1..(4 * ((n + 2) \div 3)) |->
            LET g == (j - 1) \div 4
                k == (j - 1) % 4
                b0 == B(3 * g + 1)
                b1 == B(3 * g + 2)
                b2 == B(3 * g + 3)
            IN  CASE k = 0 -> b0 \div 4
                  [] k = 1 -> (b0 % 4) * 16 + b1 \div 16
                  [] k = 2 -> IF 3 * g + 2 > n THEN Pad
                              ELSE (b1 % 16) * 4 + b2 \div 64
                  [] k = 3 -> IF 3 * g + 3 > n THEN Pad ELSE b2 % 64]

\* str.charCodeAt(i) for the characters of the four tags
CharCode(c) ==
    CASE c = "R" -> 82 [] c = "I" -> 73 [] c = "F" -> 70 [] c = "W" -> 87
      [] c = "A" -> 65 [] c = "V" -> 86 [] c = "E" -> 69 [] c = "f" -> 102
      [] c = "m" -> 109 [] c = "t" -> 116 [] c = " " -> 32 [] c = "d" -> 100
      [] c = "a" -> 97

\* DataView.setUint8 for each character of str, from offset on
writeString(view, offset, str) ==
    [i \in 1..Len(view) |->
        IF i - 1 >= offset /\ i - 1 < offset + Len(str)
        THEN CharCode(str[i - offset]) ELSE view[i]]

\* a setUint32 that forgets littleEndian = true
setUint32BigEndian(view, offset, value) ==
    LET v == value
    IN  [i \in 1..Len(view) |->
            CASE i - 1 = offset     -> (v \div 16777216) % 256
              [] i - 1 = offset + 1 -> (v \div 65536) % 256
              [] i - 1 = offset + 2 -> (v \div 256) % 256
              [] i - 1 = offset + 3 -> v % 256
              [] OTHER -> view[i]]

\* DataView.setUint32(offset, value, true): four bytes, least significant first
\* (every value written is in 0..2^31-1, where the wrap modulo 2^32 changes
\* nothing)
setUint32(view, offset, value) ==
    LET v == value
    IN  [i \in 1..Len(view) |->
            CASE i - 1 = offset     -> v % 256
              [] i - 1 = offset + 1 -> (v \div 256) % 256
              [] i - 1 = offset + 2 -> (v \div 65536) % 256
              [] i - 1 = offset + 3 -> (v \div 16777216) % 256
              [] OTHER -> view[i]]

\* DataView.setUint16(offset, value, true)
setUint16(view, offset, value) ==
    LET v == value % 65536
    IN  [i \in 1..Len(view) |->
            CASE i - 1 = offset     -> v % 256
              [] i - 1 = offset + 1 -> v \div 256
              [] OTHER -> view[i]]

createWavFile(pcmData, sampleRate, numChannels, bitsPerSample) ==
    LET headerLength == 44
        dataSize == Len(pcmData)
        fileSize == dataSize + headerLength
        buffer == [i \in 1..fileSize |-> 0]
        \* bitsPerSample / 8, exact for the multiples of 8
        byteRate == sampleRate * numChannels * (bitsPerSample \div 8)
        blockAlign == numChannels * (bitsPerSample \div 8)
        v1 == writeString(buffer, 0, <<"R", "I", "F", "F">>)
        v2 == setUint32(v1, 4, fileSize - 8)
        v3 == writeString(v2, 8, <<"W", "A", "V", "E">>)
        v4 == writeString(v3, 12, <<"f", "m", "t", " ">>)
        v5 == setUint32(v4, 16, 16)
        v6 == setUint16(v5, 20, 1)
        v7 == setUint16(v6, 22, numChannels)
        v8 == setUint32(v7, 24, sampleRate)
        v9 == setUint32(v8, 28, byteRate)
        v10 == setUint16(v9, 32, blockAlign)
        v11 == setUint16(v10, 34, bitsPerSample)
        v12 == writeString(v11, 36, <<"d", "a", "t", "a">>)
        v13 == setUint32(v12, 40, dataSize)
    IN  [i \in 1..fileSize |->
            IF i > headerLength THEN pcmData[i - headerLength] ELSE v13[i]]

\* a sample count that rounds up instead of down
SilenceSamplesCeil(units, sampleRate) == (units * sampleRate + DurDen - 1) \div DurDen

SilenceSamples(units, sampleRate) == (units * sampleRate) \div DurDen

\* the bytes createWavFileDataUrl hands to encode
wavFileBytes(base64, silenceUnits) ==
    LET pcmData == decode(base64)
        sampleRate == 24000
        numChannels == 1
        bitsPerSample == 16
        bytesPerSample == bitsPerSample \div 8
        numSilenceSamples == SilenceSamples(silenceUnits, sampleRate)
        silenceBytesCount == numSilenceSamples * numChannels * bytesPerSample
        combinedData ==
            IF silenceUnits > 0 /\ silenceBytesCount > 0
            THEN pcmData \o [i \in 1..silenceBytesCount |-> 0]
            ELSE pcmData
    IN  createWavFile(combinedData, sampleRate, numChannels, bitsPerSample)

createWavFileDataUrl(base64, silenceUnits) ==
    [mime |-> "audio/wav", base64 |-> encode(wavFileBytes(base64, silenceUnits))]

(***************************************************************************)
(* services/geminiService: parseGenders and the voice resolution of        *)
(* generateSpeech.                                                         *)
(***************************************************************************)
MALE_VOICES == <<"Puck", "Charon", "Fenrir">>
FEMALE_VOICES == <<"Kore", "Zephyr">>

\* normalizedString.split(/[\s,]+/).filter(Boolean): the maximal runs of
\* characters that are neither white space nor a comma
Separators == WhiteSpace \cup {","}

RECURSIVE SplitParts(_)
SplitParts(s) ==
    IF s = <<>> THEN <<>>
    ELSE IF Head(s) \in Separators THEN SplitParts(Tail(s))
    ELSE LET RECURSIVE RunLen(_)
             RunLen(k) == IF k < Len(s) /\ s[k + 1] \notin Separators
                          THEN RunLen(k + 1) ELSE k
             n == RunLen(1)
         IN  <<SubSeq(s, 1, n)>> \o SplitParts(Drop(s, n))

Repeat(x, n) == [i \in 1..n |-> x]

IsMalePart(part) ==
    \/ StartsWith(part, <<"n", "a", "m">>)
    \/ StartsWith(part, <<"m", "a", "n">>)
    \/ StartsWith(part, <<"m", "e", "n">>)

IsFemalePart(part) ==
    \/ StartsWith(part, <<"n", "u">>)
    \/ StartsWith(part, <<"w", "o", "m", "a", "n">>)
    \/ StartsWith(part, <<"w", "o", "m", "e", "n">>)

\* a loop that does not reset currentCount after a gender
RECURSIVE ParsePartsKeepCount(_, _, _)
ParsePartsKeepCount(parts, currentCount, genders) ==
    IF parts = <<>> THEN genders
    ELSE LET part == Head(parts)
             num == ParseInt(part)
         IN  IF num # NaN /\ num[1] > 0
             THEN ParsePartsKeepCount(Tail(parts), num[1], genders)
             ELSE IF IsMalePart(part)
             THEN ParsePartsKeepCount(Tail(parts), currentCount,
                                      genders \o Repeat("male", currentCount))
             ELSE IF IsFemalePart(part)
             THEN ParsePartsKeepCount(Tail(parts), currentCount,
                                      genders \o Repeat("female", currentCount))
             ELSE ParsePartsKeepCount(Tail(parts), currentCount, genders)

\* the loop of parseGenders over the parts, from currentCount and genders on
RECURSIVE ParseParts(_, _, _)
ParseParts(parts, currentCount, genders) ==
    IF parts = <<>> THEN genders
    ELSE LET part == Head(parts)
             num == ParseInt(part)
         IN  IF num # NaN /\ num[1] > 0
             THEN ParseParts(Tail(parts), num[1], genders)
             ELSE IF IsMalePart(part)
             THEN ParseParts(Tail(parts), 1, genders \o Repeat("male", currentCount))
             ELSE IF IsFemalePart(part)
             THEN ParseParts(Tail(parts), 1, genders \o Repeat("female", currentCount))
             ELSE ParseParts(Tail(parts), currentCount, genders)

parseGenders(genderString) ==
    IF Trim(genderString) = <<>> THEN <<>>
    ELSE ParseParts(SplitParts(Normalize(genderString)), 1, <<>>)

\* the class [a-zA-Z0-9\s] of speakerRegex
LabelClass == Letters \cup Digits \cup WhiteSpace

\* where ^ matches under the m flag: at the start and after a line break
AtLineStart(s, p) == p = 1 \/ s[p - 1] = "\n"

\* the first position from p on that holds no character of the class
RECURSIVE ClassRunEnd(_, _)
ClassRunEnd(s, p) ==
    IF p <= Len(s) /\ s[p] \in LabelClass THEN ClassRunEnd(s, p + 1) ELSE p

\* script.match(/^([a-zA-Z0-9\s]+):/gm), the search resuming at p: the
\* matches from left to right, none overlapping another
RECURSIVE MatchesFrom(_, _)
MatchesFrom(s, p) ==
    IF p > Len(s) THEN <<>>
    ELSE LET e == ClassRunEnd(s, p)
         IN  IF AtLineStart(s, p) /\ e > p /\ e <= Len(s) /\ s[e] = ":"
             THEN <<SubSeq(s, p, e)>> \o MatchesFrom(s, e + 1)
             ELSE MatchesFrom(s, p + 1)

SpeakerMatches(s) == MatchesFrom(s, 1)

\* [...new Set(xs)]: the distinct elements in order of first appearance
RECURSIVE Distinct(_)
Distinct(xs) ==
    IF xs = <<>> THEN <<>>
    ELSE LET init == Distinct(SubSeq(xs, 1, Len(xs) - 1))
             last == xs[Len(xs)]
         IN  IF \E i \in 1..Len(init) : init[i] = last THEN init
             ELSE Append(init, last)

\* [...new Set(matches.map(s => s.slice(0, -1).trim()))]
Speakers(matches) ==
    Distinct([i \in 1..Len(matches) |->
                 Trim(SubSeq(matches[i], 1, Len(matches[i]) - 1))])

Thrown(name, count) == [kind |-> "error", name |-> name, count |-> count]

\* a map that never advances maleVoiceIndex and femaleVoiceIndex
RECURSIVE AssignVoicesNoAdvance(_, _, _, _, _)
AssignVoicesNoAdvance(speakers, requestedGenders, index, maleVoiceIndex, femaleVoiceIndex) ==
    IF index >= Len(speakers) THEN <<>>
    ELSE LET gender == IF Len(requestedGenders) > 0
                       THEN (IF index + 1 <= Len(requestedGenders)
                             THEN requestedGenders[index + 1] ELSE "undefined")
                       ELSE (IF index = 0 THEN "male" ELSE "female")
         IN  <<[speaker |-> speakers[index + 1],
                voiceName |-> IF gender = "male"
                              THEN MALE_VOICES[(maleVoiceIndex % Len(MALE_VOICES)) + 1]
                              ELSE FEMALE_VOICES[(femaleVoiceIndex % Len(FEMALE_VOICES)) + 1]]>>
             \o AssignVoicesNoAdvance(speakers, requestedGenders, index + 1,
                                      maleVoiceIndex, femaleVoiceIndex)

\* speakers.map(...) with maleVoiceIndex and femaleVoiceIndex, from speaker
\* number index (counted from 0) on
RECURSIVE AssignVoices(_, _, _, _, _)
AssignVoices(speakers, requestedGenders, index, maleVoiceIndex, femaleVoiceIndex) ==
    IF index >= Len(speakers) THEN <<>>
    ELSE LET gender == IF Len(requestedGenders) > 0
                       THEN (IF index + 1 <= Len(requestedGenders)
                             THEN requestedGenders[index + 1] ELSE "undefined")
                       ELSE (IF index = 0 THEN "male" ELSE "female")
         IN  IF gender = "male"
             THEN <<[speaker |-> speakers[index + 1],
                     voiceName |-> MALE_VOICES[(maleVoiceIndex % Len(MALE_VOICES)) + 1]]>>
                  \o AssignVoices(speakers, requestedGenders, index + 1,
                                  maleVoiceIndex + 1, femaleVoiceIndex)
             ELSE <<[speaker |-> speakers[index + 1],
                     voiceName |-> FEMALE_VOICES[(femaleVoiceIndex % Len(FEMALE_VOICES)) + 1]]>>
                  \o AssignVoices(speakers, requestedGenders, index + 1,
                                  maleVoiceIndex, femaleVoiceIndex + 1)

\* a single-speaker branch that looks for 'nam' only
SingleVoiceNameNamOnly(genders) ==
    IF Includes(Normalize(genders), <<"n", "a", "m">>) THEN "Puck" ELSE "Kore"

\* the single-speaker branch of generateSpeech
SingleVoiceName(genders) ==
    LET normalizedGenders == Normalize(genders)
    IN  IF \/ Includes(normalizedGenders, <<"n", "a", "m">>)
           \/ Includes(normalizedGenders, <<"m", "a", "n">>)
        THEN "Puck" ELSE "Kore"

\* the multi-speaker branch of generateSpeech, from speakerRegex on
MultiSpeakerConfig(text, genders) ==
    LET matches == SpeakerMatches(text)
        speakers == Speakers(matches)
        requestedGenders == parseGenders(genders)
    IN  IF matches = <<>> THEN Thrown("MissingSpeakerLabels", 0)
        ELSE IF Len(speakers) # 2
        THEN Thrown("SpeakerCountMismatch", Len(speakers))
        ELSE IF Len(requestedGenders) > 0 /\ Len(requestedGenders) # 2
        THEN Thrown("GenderCountMismatch", Len(requestedGenders))
        ELSE [kind |-> "multiSpeakerVoiceConfig",
              speakerVoiceConfigs |-> AssignVoices(speakers, requestedGenders, 0, 0, 0)]

\* generateSpeech from the branch on numVoices to the finished config: the
\* speechConfig, or the error thrown
SpeechConfig(text, options) ==
    IF options.numVoices <= 1
    THEN [kind |-> "voiceConfig", voiceName |-> SingleVoiceName(options.voiceGenders)]
    ELSE IF options.numVoices # 2
    THEN Thrown("UnsupportedVoiceCount", options.numVoices)
    ELSE MultiSpeakerConfig(text, options.voiceGenders)

(***************************************************************************)
(* createWavFileDataUrl on its own: the inputs are drawn in Init.          *)
(***************************************************************************)
\* the byte values the decoded PCM buffers are made of
PcmBytes == {1, 128, 255}

RECURSIVE SeqsUpTo(_, _)
SeqsUpTo(S, n) ==
    IF n = 0 THEN {<<>>}
    ELSE LET shorter == SeqsUpTo(S, n - 1)
         IN  shorter \cup {Append(s, x) : s \in {t \in shorter : Len(t) = n - 1}, x \in S}

PcmBuffers == SeqsUpTo(PcmBytes, MaxLen)

\* 0, 0.00001 s, 0.00002 s, ...
Durations == 0..MaxDur

\* half a second, tried on two buffers
HalfSecond == DurDen \div 2
HalfSecondBuffers == {<<>>, <<1, 128>>}

WavIdle ==
    /\ base64Pcm = <<>>
    /\ trailingSilenceSeconds = 0
    /\ dataUrl = NULL
    /\ wavPc = "idle"

GsIdle ==
    /\ gsScript = <<>>
    /\ gsOptions = [numVoices |-> 1, voiceGenders |-> <<>>]
    /\ gsResult = NULL
    /\ gsPc = "idle"

AppIdle ==
    /\ script = <<>>
    /\ numVoices = <<"1">>
    /\ voiceGenders = <<>>
    /\ accent = <<>>
    /\ trailingSilence = <<"0">>
    /\ isLoading = FALSE
    /\ audioDataUrl = NULL
    /\ error = NULL
    /\ pc = "idle"
    /\ attempt = NULL
    /\ apiKey = TRUE

InitWav ==
    /\ \/ /\ base64Pcm \in {encode(b) : b \in PcmBuffers}
          /\ trailingSilenceSeconds \in Durations
       \/ /\ base64Pcm \in {encode(b) : b \in HalfSecondBuffers}
          /\ trailingSilenceSeconds = HalfSecond
    /\ dataUrl = NULL
    /\ wavPc = "call"
    /\ GsIdle
    /\ AppIdle

CallCreateWavFileDataUrl ==
    /\ wavPc = "call"
    /\ dataUrl' = Some(createWavFileDataUrl(base64Pcm, trailingSilenceSeconds))
    /\ wavPc' = "done"
    /\ UNCHANGED <<base64Pcm, trailingSilenceSeconds, gsVars, appVars>>

NextWav == CallCreateWavFileDataUrl

SpecWav == InitWav /\ [][NextWav]_vars

\* what the call was given and what it produced, as bytes
WavInput == decode(base64Pcm)
WavOutput == decode(dataUrl[1].base64)
WavSilenceBytes == ((trailingSilenceSeconds * 24000) \div DurDen) * 2

\* C1: the produced bytes are 44 header bytes, then the input byte for byte,
\* then floor(d * 24000) * 2 zero bytes and nothing else; a duration of 0 or
\* below one sample period appends nothing, 0.5 s appends 24000 zero bytes
C1_Layout ==
    wavPc = "done" =>
        LET n == Len(WavInput)
            s == WavSilenceBytes
            out == WavOutput
        IN  /\ Len(out) = 44 + n + s
            /\ \A i \in 1..n : out[44 + i] = WavInput[i]
            /\ \A i \in 1..s : out[44 + n + i] = 0
            /\ trailingSilenceSeconds * 24000 < DurDen => Len(out) = 44 + n
            /\ 2 * trailingSilenceSeconds = DurDen => Len(out) = 44 + n + 24000

C1_Witness ==
    /\ wavPc = "done"
    /\ Len(WavInput) = MaxLen
    /\ WavSilenceBytes = 4
    /\ Len(WavOutput) = 44 + MaxLen + 4

\* the width bytes from offset on hold value, least significant byte first
FieldIs(bytes, offset, width, value) ==
    \A k \in 0..(width - 1) : bytes[offset + 1 + k] = (value \div (256 ^ k)) % 256

ReadTag(bytes, offset) == SubSeq(bytes, offset + 1, offset + 4)

\* C2: the 44-byte header holds the four tags and, little-endian, the sizes
\* and the format fields; both size fields count the appended silence
C2_Header ==
    wavPc = "done" =>
        LET out == WavOutput
            p == Len(WavInput) + WavSilenceBytes
            channels == 1
            sampleRate == 24000
            bitsPerSample == 16
        IN  /\ ReadTag(out, 0) = <<82, 73, 70, 70>>
            /\ ReadTag(out, 8) = <<87, 65, 86, 69>>
            /\ ReadTag(out, 12) = <<102, 109, 116, 32>>
            /\ ReadTag(out, 36) = <<100, 97, 116, 97>>
            /\ FieldIs(out, 4, 4, 44 + p - 8)
            /\ FieldIs(out, 16, 4, 16)
            /\ FieldIs(out, 20, 2, 1)
            /\ FieldIs(out, 22, 2, channels)
            /\ FieldIs(out, 24, 4, sampleRate)
            /\ FieldIs(out, 28, 4, sampleRate * channels * (bitsPerSample \div 8))
            /\ FieldIs(out, 32, 2, channels * (bitsPerSample \div 8))
            /\ FieldIs(out, 34, 2, bitsPerSample)
            /\ FieldIs(out, 40, 4, p)
            /\ FieldIs(out, 4, 4, Len(out) - 8)
            /\ FieldIs(out, 40, 4, Len(out) - 44)

C2_Witness ==
    /\ wavPc = "done"
    /\ WavSilenceBytes = 24000
    /\ Len(WavInput) = 2
    /\ FieldIs(WavOutput, 40, 4, 24002)

(***************************************************************************)
(* generateSpeech's voice resolution and parseGenders on their own: the    *)
(* script, the speaker count and the gender hint are drawn in Init.        *)
(***************************************************************************)
ScriptAlphabet == {"A", "B", " ", "\n", ":", "!"}

AllScripts == SeqsUpTo(ScriptAlphabet, MaxScriptLen)

\* "A: hi\nB: hello\nA: bye", "x\nA: hi\nB: hi", "A:\nx\nA:\nB:", "A: hi"
ExampleScripts ==
    { <<"A", ":", " ", "h", "i", "\n", "B", ":", " ", "h", "e", "l", "l", "o", "\n",
        "A", ":", " ", "b", "y", "e">>,
      <<"x", "\n", "A", ":", " ", "h", "i", "\n", "B", ":", " ", "h", "i">>,
      <<"A", ":", "\n", "x", "\n", "A", ":", "\n", "B", ":">>,
      <<"A", ":", " ", "h", "i">> }

HintWords ==
    { <<"0">>, <<"1">>, <<"2">>, <<"3">>, <<"-", "2">>, <<"+", "2">>,
      <<"n", "a", "m">>, <<"m", "a", "n">>, <<"m", "e", "n">>, <<"N", "a", "m">>,
      <<"n", "u">>, <<"n", "U+1EEF">>, <<"w", "o", "m", "a", "n">>,
      <<"w", "o", "m", "e", "n">>, <<"2", "n", "a", "m">>, <<"x">> }

RECURSIVE JoinWords(_)
JoinWords(ws) ==
    IF ws = <<>> THEN <<>>
    ELSE IF Len(ws) = 1 THEN ws[1]
    ELSE ws[1] \o <<" ">> \o JoinWords(Tail(ws))

\* "1 nam 1 nu", "2 nam nu", "1 nam 1 nam 1 nu", "1 nam, 1 nu" with the
\* diacritics, " 2  nam ", " "
ExampleHints ==
    { <<"1", " ", "n", "a", "m", " ", "1", " ", "n", "u">>,
      <<"2", " ", "n", "a", "m", " ", "n", "u">>,
      <<"1", " ", "n", "a", "m", " ", "1", " ", "n", "a", "m", " ", "1", " ", "n", "u">>,
      <<"1", " ", "n", "a", "m", ",", " ", "1", " ", "n", "U+1EEF">>,
      <<" ", "2", " ", " ", "n", "a", "m", " ">>,
      <<" ">> }

AllHints == {JoinWords(ws) : ws \in SeqsUpTo(HintWords, MaxTokens)} \cup ExampleHints

\* "", "3 nam"
FewHints == {<<>>, <<"3", " ", "n", "a", "m">>}

VoiceCounts == {0, 1, 2, 3}

InitSpeech ==
    /\ \/ /\ gsScript \in AllScripts
          /\ gsOptions \in [numVoices : {2}, voiceGenders : FewHints]
       \/ /\ gsScript \in ExampleScripts
          /\ gsOptions \in [numVoices : VoiceCounts, voiceGenders : AllHints]
    /\ gsResult = NULL
    /\ gsPc = "call"
    /\ WavIdle
    /\ AppIdle

\* generateSpeech up to the request it would send
CallGenerateSpeech ==
    /\ gsPc = "call"
    /\ gsResult' = Some([fn |-> "generateSpeech",
                         value |-> SpeechConfig(gsScript, gsOptions)])
    /\ gsPc' = "done"
    /\ UNCHANGED <<gsScript, gsOptions, wavVars, appVars>>

CallParseGenders ==
    /\ gsPc = "call"
    /\ gsResult' = Some([fn |-> "parseGenders",
                         value |-> parseGenders(gsOptions.voiceGenders)])
    /\ gsPc' = "done"
    /\ UNCHANGED <<gsScript, gsOptions, wavVars, appVars>>

NextSpeech == CallGenerateSpeech \/ CallParseGenders

SpecSpeech == InitSpeech /\ [][NextSpeech]_vars

Returned(fn) == gsPc = "done" /\ gsResult[1].fn = fn
TwoSpeakerCall == Returned("generateSpeech") /\ gsOptions.numVoices = 2
SingleSpeakerCall == Returned("generateSpeech") /\ gsOptions.numVoices <= 1
Resolved == TwoSpeakerCall /\ gsResult[1].value.kind = "multiSpeakerVoiceConfig"

(***************************************************************************)
(* The script read line by line, as the specification words it.            *)
(***************************************************************************)
\* the lines of a text, split at the line breaks
RECURSIVE Lines(_)
Lines(s) ==
    LET RECURSIVE Brk(_)
        Brk(k) == IF k > Len(s) \/ s[k] = "\n" THEN k ELSE Brk(k + 1)
        b == Brk(1)
    IN  IF b > Len(s) THEN <<s>>
        ELSE <<SubSeq(s, 1, b - 1)>> \o Lines(Drop(s, b))

\* the characters of a label token: letters, digits and spaces, none of them
\* a line break
LabelChars == (Letters \cup Digits \cup WhiteSpace) \ {"\n"}

\* the length of the label token a line starts with, when a colon follows it
\* immediately; 0 when the line is not of that form
LabelLen(line) ==
    LET ks == {k \in 1..(Len(line) - 1) :
                  /\ \A i \in 1..k : line[i] \in LabelChars
                  /\ line[k + 1] = ":"}
    IN  IF ks = {} THEN 0 ELSE CHOOSE k \in ks : TRUE

\* the labels of the lines of that form, in script order
LineLabels(s) ==
    LET ls == SelectSeq(Lines(s), LAMBDA line : LabelLen(line) > 0)
    IN  [i \in 1..Len(ls) |-> Trim(SubSeq(ls[i], 1, LabelLen(ls[i])))]

\* C3, as claimed: the outcome of the two-speaker path is decided by the
\* lines with a label (none: MissingSpeakerLabels), then by the number of
\* distinct labels (not 2: SpeakerCountMismatch), then by the parsed gender
\* list (not empty and not 2 long: GenderCountMismatch), and is a resolution
\* otherwise
ClaimedOutcome(s, hint) ==
    IF LineLabels(s) = <<>> THEN "MissingSpeakerLabels"
    ELSE IF Len(Distinct(LineLabels(s))) # 2 THEN "SpeakerCountMismatch"
    ELSE IF Len(parseGenders(hint)) \notin {0, 2} THEN "GenderCountMismatch"
    ELSE "resolved"

Outcome(result) == IF result.kind = "error" THEN result.name ELSE "resolved"

C3_ChecksInOrder ==
    TwoSpeakerCall =>
        Outcome(gsResult[1].value) = ClaimedOutcome(gsScript, gsOptions.voiceGenders)

\* C6, as claimed: the labels of a resolution are the distinct labels of the
\* lines that start with a label token and a colon, each the text of one
\* line, in order of first appearance
C6_LabelsAreLineLabels ==
    Resolved =>
        LET cfgs == gsResult[1].value.speakerVoiceConfigs
        IN  /\ [i \in 1..Len(cfgs) |-> cfgs[i].speaker] = Distinct(LineLabels(gsScript))
            /\ \A i \in 1..Len(cfgs) :
                   \A k \in 1..Len(cfgs[i].speaker) : cfgs[i].speaker[k] # "\n"

(***************************************************************************)
(* The gender-phrase grammar, stated position by position: each gender     *)
(* token emits its tag as often as the last count token says that stands   *)
(* between it and the gender token before it, once when there is none.     *)
(***************************************************************************)
HasPrefixIn(tok, prefixes) ==
    \E q \in prefixes : Len(tok) >= Len(q) /\ \A k \in 1..Len(q) : tok[k] = q[k]

MalePrefixes == {<<"n", "a", "m">>, <<"m", "a", "n">>, <<"m", "e", "n">>}
FemalePrefixes == {<<"n", "u">>, <<"w", "o", "m", "a", "n">>, <<"w", "o", "m", "e", "n">>}

\* a token that is a positive integer: an optional "+", then decimal digits
\* and nothing else
IsPositiveInteger(tok) ==
    LET body == IF tok # <<>> /\ tok[1] = "+" THEN Tail(tok) ELSE tok
    IN  /\ body # <<>>
        /\ \A k \in 1..Len(body) : body[k] \in Digits
        /\ DecimalValue(body) > 0

\* a token that starts with a positive integer: an optional "+", then
\* decimal digits, then anything
StartsWithPositiveInteger(tok) ==
    LET body == IF tok # <<>> /\ tok[1] = "+" THEN Tail(tok) ELSE tok
    IN  DigitRun(body) # <<>> /\ DecimalValue(DigitRun(body)) > 0

LeadingInteger(tok) ==
    DecimalValue(DigitRun(IF tok # <<>> /\ tok[1] = "+" THEN Tail(tok) ELSE tok))

\* the tags of the grammar for the tokens toks; IsCount says which tokens
\* are counts
Grammar(toks, IsCount(_)) ==
    LET IsGender(i) ==
            /\ ~IsCount(toks[i])
            /\ HasPrefixIn(toks[i], MalePrefixes \cup FemalePrefixes)
        Tag(i) == IF HasPrefixIn(toks[i], MalePrefixes) THEN "male" ELSE "female"
        Before(i) == {j \in 1..(i - 1) : IsGender(j)}
        From(i) == IF Before(i) = {} THEN 1
                   ELSE 1 + CHOOSE j \in Before(i) : \A k \in Before(i) : k <= j
        Counts(i) == {k \in From(i)..(i - 1) : IsCount(toks[k])}
        Times(i) == IF Counts(i) = {} THEN 1
                    ELSE LeadingInteger(toks[CHOOSE k \in Counts(i) :
                                                 \A m \in Counts(i) : m <= k])
        RECURSIVE Emit(_)
        Emit(i) == IF i > Len(toks) THEN <<>>
                   ELSE IF IsGender(i) THEN Repeat(Tag(i), Times(i)) \o Emit(i + 1)
                   ELSE Emit(i + 1)
    IN  Emit(1)

HintTokens == SplitParts(Normalize(gsOptions.voiceGenders))

\* C5, as claimed: parseGenders yields the tags of the grammar in which the
\* counts are the positive-integer tokens
C5_GrammarOfIntegerTokens ==
    Returned("parseGenders") =>
        gsResult[1].value = Grammar(HintTokens, IsPositiveInteger)

\* C5, amended: parseGenders yields the tags of the grammar in which the
\* counts are the tokens that start with a positive integer (an optional
\* "+", decimal digits, then anything, as parseInt reads them)
C5_GrammarOfParsedCounts ==
    Returned("parseGenders") =>
        gsResult[1].value = Grammar(HintTokens, StartsWithPositiveInteger)

\* "2nam nu" is parsed to two female tags
C5_Witness ==
    /\ Returned("parseGenders")
    /\ gsOptions.voiceGenders = <<"2", "n", "a", "m", " ", "n", "u">>
    /\ gsResult[1].value = <<"female", "female">>

(***************************************************************************)
(* Voice assignment.                                                       *)
(***************************************************************************)
Pool(gender) == IF gender = "male" THEN MALE_VOICES ELSE FEMALE_VOICES

\* C4: on a resolution speaker i gets the gender the parsed list gives it
\* (male, female when the list is empty) and the voice of that gender's pool
\* at the number of earlier speakers of the same gender, modulo the pool's
\* length; no hint gives (Puck, Kore), "2 nam" gives (Puck, Charon), and the
\* two voices differ
C4_VoicesByGenderInPoolOrder ==
    Resolved =>
        LET cfgs == gsResult[1].value.speakerVoiceConfigs
            parsed == parseGenders(gsOptions.voiceGenders)
            g == IF Len(parsed) = 2 THEN parsed ELSE <<"male", "female">>
            Earlier(i) == Cardinality({j \in 1..(i - 1) : g[j] = g[i]})
        IN  /\ Len(cfgs) = 2
            /\ \A i \in 1..2 :
                   cfgs[i].voiceName = Pool(g[i])[(Earlier(i) % Len(Pool(g[i]))) + 1]
            /\ cfgs[1].voiceName # cfgs[2].voiceName
            /\ Trim(gsOptions.voiceGenders) = <<>> =>
                   /\ cfgs[1].voiceName = "Puck"
                   /\ cfgs[2].voiceName = "Kore"
            /\ gsOptions.voiceGenders = <<"2", " ", "n", "a", "m">> =>
                   /\ cfgs[1].voiceName = "Puck"
                   /\ cfgs[2].voiceName = "Charon"

\* "2 nam" on a script of two speakers
C4_Witness ==
    /\ Resolved
    /\ gsOptions.voiceGenders = <<"2", " ", "n", "a", "m">>
    /\ gsResult[1].value.speakerVoiceConfigs[2].voiceName = "Charon"

(***************************************************************************)
(* The single-speaker path.                                                *)
(***************************************************************************)
Occurs(p, s) ==
    \E i \in 0..(Len(s) - Len(p)) : \A k \in 1..Len(p) : s[i + k] = p[k]

C10_SingleAgreesWithGrammar ==
    (SingleSpeakerCall /\ gsOptions.numVoices = 1) =>
        LET parsed == parseGenders(gsOptions.voiceGenders)
        IN  Len(parsed) = 1 =>
                gsResult[1].value.voiceName =
                    IF parsed[1] = "male" THEN "Puck" ELSE "Kore"

(***************************************************************************)
(* App: the form and handleGenerateAudio.  The remote request is in flight *)
(* while pc = "awaiting"; attempt holds what the latest call of            *)
(* handleGenerateAudio parsed and which steps it took.                     *)
(***************************************************************************)
\* "", " ", "hi", "A:", "A:\nB:"
AppScripts == {<<>>, <<" ">>, <<"h", "i">>, <<"A", ":">>, <<"A", ":", "\n", "B", ":">>}
\* "", "0", "1", "2", "3", "-1", "2.5"
AppNumVoices == {<<>>, <<"0">>, <<"1">>, <<"2">>, <<"3">>, <<"-", "1">>, <<"2", ".", "5">>}
\* "", "2 nam", "3 nam"
AppGenders == {<<>>, <<"2", " ", "n", "a", "m">>, <<"3", " ", "n", "a", "m">>}
\* "", "Au"
AppAccents == {<<>>, <<"A", "u">>}
\* "", "0", "-1", "0.0001"
AppSilences == {<<>>, <<"0">>, <<"-", "1">>, <<"0", ".", "0", "0", "0", "1">>}

\* what the remote call may come back with: inline data (two PCM bytes, the
\* empty string, a string atob rejects), a response without inline data, a
\* rejection whose message holds a JSON error, another rejection
ApiResponses ==
    { [kind |-> "data", data |-> encode(<<1, 128>>)],
      [kind |-> "data", data |-> <<>>],
      [kind |-> "data", data |-> <<0>>],
      [kind |-> "none"],
      [kind |-> "rejected", name |-> "ApiErrorJson"],
      [kind |-> "rejected", name |-> "ApiError"] }

InitApp ==
    /\ script = <<>>
    /\ numVoices = <<"1">>
    /\ voiceGenders = <<>>
    /\ accent = <<>>
    /\ trailingSilence = <<"0">>
    /\ isLoading = FALSE
    /\ audioDataUrl = NULL
    /\ error = NULL
    /\ pc = "idle"
    /\ attempt = NULL
    /\ apiKey \in BOOLEAN
    /\ WavIdle
    /\ GsIdle

fieldVars == <<script, numVoices, voiceGenders, accent, trailingSilence>>
resultVars == <<isLoading, audioDataUrl, error, pc, attempt>>

\* the controls are disabled while isLoading
SetScript(v) ==
    /\ ~isLoading
    /\ script' = v
    /\ UNCHANGED <<numVoices, voiceGenders, accent, trailingSilence, resultVars,
                   apiKey, wavVars, gsVars>>

SetNumVoices(v) ==
    /\ ~isLoading
    /\ numVoices' = v
    /\ UNCHANGED <<script, voiceGenders, accent, trailingSilence, resultVars,
                   apiKey, wavVars, gsVars>>

\* disabled={isLoading || (parseInt(numVoices, 10) || 1) < 2}
SetVoiceGenders(v) ==
    /\ ~isLoading
    /\ LET n == ParseInt(numVoices)
       IN  (IF n = NaN \/ n[1] = 0 THEN 1 ELSE n[1]) >= 2
    /\ voiceGenders' = v
    /\ UNCHANGED <<script, numVoices, accent, trailingSilence, resultVars,
                   apiKey, wavVars, gsVars>>

SetAccent(v) ==
    /\ ~isLoading
    /\ accent' = v
    /\ UNCHANGED <<script, numVoices, voiceGenders, trailingSilence, resultVars,
                   apiKey, wavVars, gsVars>>

SetTrailingSilence(v) ==
    /\ ~isLoading
    /\ trailingSilence' = v
    /\ UNCHANGED <<script, numVoices, voiceGenders, accent, resultVars,
                   apiKey, wavVars, gsVars>>

\* the text of the request
fullScript ==
    IF accent # <<>>
    THEN <<"Please read the following with an ">> \o accent \o <<" accent: \n\n">>
         \o script
    ELSE script

\* an early return of handleGenerateAudio: setError and nothing else
Rejected(message, parsedNumVoices) ==
    /\ error' = Some(message)
    /\ attempt' = Some([parsedNumVoices |-> parsedNumVoices, steps |-> {},
                        outcome |-> "failed"])
    /\ UNCHANGED <<isLoading, audioDataUrl, pc>>

\* the catch and finally blocks of handleGenerateAudio for the error err
Caught(err, parsedNumVoices, steps) ==
    /\ error' = Some(IF err.name = "ApiErrorJson" THEN Thrown("ApiErrorMessage", 0)
                     ELSE err)
    /\ audioDataUrl' = NULL
    /\ isLoading' = FALSE
    /\ pc' = "idle"
    /\ attempt' = Some([parsedNumVoices |-> parsedNumVoices, steps |-> steps,
                        outcome |-> "failed"])

\* isNaN(parsedNumVoices) || parsedNumVoices < 1
InvalidVoiceCount(parsedNumVoices) ==
    parsedNumVoices = NaN \/ parsedNumVoices[1] < 1

\* a guard that lets three voices through
TooManyVoicesOffByOne(parsedNumVoices) == parsedNumVoices[1] > 3

\* parsedNumVoices > 2
TooManyVoices(parsedNumVoices) == parsedNumVoices[1] > 2

\* isNaN(parsedTrailingSilence) || parsedTrailingSilence < 0
InvalidTrailingSilence(parsedTrailingSilence) ==
    parsedTrailingSilence = NaN \/ parsedTrailingSilence[1] < 0

\* a click on the button: handleGenerateAudio up to the await of the remote
\* request, or to its end when it returns or catches an error before that.
\* The button is disabled while isLoading or on a blank script, so the
\* handler's own test of the script never fails; an error thrown by
\* generateSpeech before its await is caught in the same step (no event of
\* the page comes between the rejection and the catch block).
HandleGenerateAudio ==
    /\ pc = "idle"
    /\ ~(isLoading \/ Trim(script) = <<>>)
    /\ LET parsedNumVoices == ParseInt(numVoices)
           parsedTrailingSilence == ParseFloat(trailingSilence)
           options == [numVoices |-> parsedNumVoices[1], voiceGenders |-> voiceGenders]
           began == {"setIsLoading(true)", "setAudioDataUrl(null)", "generateSpeech"}
           config == SpeechConfig(script, options)
       IN  IF Trim(script) = <<>>
           THEN Rejected(Thrown("EmptyScript", 0), parsedNumVoices)
           ELSE IF InvalidVoiceCount(parsedNumVoices)
           THEN Rejected(Thrown("InvalidVoiceCount", 0), parsedNumVoices)
           ELSE IF TooManyVoices(parsedNumVoices)
           THEN Rejected(Thrown("TooManyVoices", 0), parsedNumVoices)
           ELSE IF InvalidTrailingSilence(parsedTrailingSilence)
           THEN Rejected(Thrown("InvalidTrailingSilence", 0), parsedNumVoices)
           ELSE IF ~apiKey
           THEN Caught(Thrown("ApiKeyNotFound", 0), parsedNumVoices, began)
           ELSE IF config.kind = "error"
           THEN Caught(config, parsedNumVoices, began \cup {"voices"})
           ELSE /\ error' = NULL
                /\ isLoading' = TRUE
                /\ audioDataUrl' = NULL
                /\ pc' = "awaiting"
                /\ attempt' = Some([parsedNumVoices |-> parsedNumVoices,
                                    steps |-> began \cup {"voices", "generateContent"},
                                    outcome |-> "pending",
                                    contents |-> fullScript,
                                    config |-> config,
                                    parsedTrailingSilence |-> parsedTrailingSilence[1]])
    /\ UNCHANGED <<fieldVars, apiKey, wavVars, gsVars>>

\* the remote request settles: the rest of generateSpeech and of
\* handleGenerateAudio
RemoteSettles(response) ==
    /\ pc = "awaiting"
    /\ LET parsed == attempt[1].parsedNumVoices
           steps == attempt[1].steps
       IN  IF response.kind = "rejected"
           THEN Caught(Thrown(response.name, 0), parsed, steps)
           ELSE IF response.kind = "none" \/ response.data = <<>>
           THEN Caught(Thrown("NoAudioData", 0), parsed, steps)
           ELSE IF AtobThrows(response.data)
           THEN Caught(Thrown("InvalidCharacterError", 0), parsed,
                       steps \cup {"createWavFileDataUrl"})
           ELSE /\ audioDataUrl' = Some(createWavFileDataUrl(
                                            response.data,
                                            attempt[1].parsedTrailingSilence))
                /\ isLoading' = FALSE
                /\ pc' = "idle"
                /\ attempt' = Some([parsedNumVoices |-> parsed,
                                    steps |-> steps \cup {"createWavFileDataUrl"},
                                    outcome |-> "succeeded"])
                /\ UNCHANGED error
    /\ UNCHANGED <<fieldVars, apiKey, wavVars, gsVars>>

NextApp ==
    \/ \E v \in AppScripts : SetScript(v)
    \/ \E v \in AppNumVoices : SetNumVoices(v)
    \/ \E v \in AppGenders : SetVoiceGenders(v)
    \/ \E v \in AppAccents : SetAccent(v)
    \/ \E v \in AppSilences : SetTrailingSilence(v)
    \/ HandleGenerateAudio
    \/ \E r \in ApiResponses : RemoteSettles(r)

SpecApp == InitApp /\ [][NextApp]_vars

Finished == pc = "idle" /\ attempt # NULL

\* C8: an attempt whose parsed speaker count is outside {1, 2} ends with an
\* error shown, without the voices being resolved, the remote request being
\* sent or isLoading being set
C8_CountGuardedBeforeResolver ==
    (Finished /\ attempt[1].parsedNumVoices \notin {Some(1), Some(2)}) =>
        /\ error # NULL
        /\ attempt[1].outcome = "failed"
        /\ attempt[1].steps \cap
               {"setIsLoading(true)", "generateSpeech", "voices", "generateContent"} = {}
        /\ ~isLoading

C8_Witness ==
    /\ Finished
    /\ attempt[1].parsedNumVoices = Some(3)
    /\ error = Some(Thrown("TooManyVoices", 0))

\* C9, as claimed: once the latest attempt has finished, isLoading is false
\* and exactly one of audioDataUrl and error is set: the audio after a
\* success, the error after a failure
C9_AudioXorError ==
    Finished =>
        /\ ~isLoading
        /\ (audioDataUrl # NULL) # (error # NULL)
        /\ attempt[1].outcome = "succeeded" => (audioDataUrl # NULL /\ error = NULL)
        /\ attempt[1].outcome = "failed" => (audioDataUrl = NULL /\ error # NULL)

====
